---------------------------- MODULE Spec2Model ----------------------------
(***************************************************************************)
(* A model of src/index.js: a Telegram bot that fetches a power-outage     *)
(* schedule page, extracts the DisconSchedule.fact assignment, filters it  *)
(* to two feeders and reports merged outage intervals.                     *)
(*                                                                         *)
(* JavaScript strings are TLA+ strings.  The Cyrillic literals of the      *)
(* source are transliterated, those of the description line letter for     *)
(* letter, so the length of a report is kept.                              *)
(* A JavaScript object keyed by strings is a function whose DOMAIN is the  *)
(* set of its own keys; a date key, an integer-like string, is identified  *)
(* with the number parseInt gives for it.  undefined is the string         *)
(* "undefined" where a status token is read, and null is the empty tuple.  *)
(***************************************************************************)
EXTENDS Integers, Sequences, FiniteSets, TLC

VARIABLES
    (* filterGPVKeys / parseLightSchedule on one document *)
    rpc, obj, keysToKeep, filteredData, results, output,
    (* the hour scan of one feeder inside parseLightSchedule *)
    spc, timeSlots, hour, currentPeriod, noLightPeriods,
    (* one call of fetchShutdowns *)
    fpc, served, scripts, idx, fetched,
    (* the /start handler: the server's page, and per request its position, *)
    (* its locals, the messages it sent and the GETs it issued              *)
    page, updates, pc, resp, text, offset, sent, acked, gets

reportVars == <<rpc, obj, keysToKeep, filteredData, results, output>>
scanVars == <<spc, timeSlots, hour, currentPeriod, noLightPeriods>>
fetchVars == <<fpc, served, scripts, idx, fetched>>
handlerVars == <<page, updates, pc, resp, text, offset, sent, acked, gets>>
vars == <<reportVars, scanVars, fetchVars, handlerVars>>

Null == <<>>
Undefined == "undefined"

-----------------------------------------------------------------------------
(* Array.prototype.includes on an array of strings: strict equality. *)
Includes(arr, x) == \E i \in 1..Len(arr) : arr[i] = x

(* The enumeration order of an object's integer-like keys: ascending. *)
RECURSIVE Ascending(_)
Ascending(S) ==
    IF S = {} THEN <<>>
    ELSE LET m == CHOOSE x \in S : \A y \in S : x <= y
         IN <<m>> \o Ascending(S \ {m})

(* The enumeration order of the string keys of a feeder mapping.  The      *)
(* source document fixes it; the model takes one fixed order of the names. *)
RECURSIVE KeyOrder(_)
KeyOrder(S) ==
    IF S = {} THEN <<>>
    ELSE LET m == CHOOSE x \in S : TRUE
         IN <<m>> \o KeyOrder(S \ {m})

(* The inner loop of filterGPVKeys: the feeder mapping kept for one date. *)
RECURSIVE FilterDate(_, _, _)
FilterDate(schedules, keys, keep) ==
    IF keys = <<>> THEN <<>>
    ELSE LET gpvKey == Head(keys)
             rest == FilterDate(schedules, Tail(keys), keep)
         IN IF Includes(keep, gpvKey)
            THEN (gpvKey :> schedules[gpvKey]) @@ rest
            ELSE rest

(* The outer loop of filterGPVKeys: result[dateKey] = {} and then the kept feeders. *)
RECURSIVE FilterLoop(_, _, _)
FilterLoop(o, dateKeys, keep) ==
    IF dateKeys = <<>> THEN <<>>
    ELSE LET dateKey == Head(dateKeys)
         IN (dateKey :> FilterDate(o[dateKey], KeyOrder(DOMAIN o[dateKey]), keep))
                @@ FilterLoop(o, Tail(dateKeys), keep)

(* filterGPVKeys creating a date's entry only when a feeder is kept. *)
filterGPVKeysLazy(o, keep) ==
    LET kept(d) == FilterDate(o[d], KeyOrder(DOMAIN o[d]), keep)
    IN [d \in {x \in DOMAIN o : kept(x) # <<>>} |-> kept(d)]

filterGPVKeys(o, keep) == FilterLoop(o, Ascending(DOMAIN o), keep)

-----------------------------------------------------------------------------
(* timeSlots[hour.toString()]: undefined when the key is missing. *)
StatusAt(slots, h) ==
    IF ToString(h) \in DOMAIN slots THEN slots[ToString(h)] ELSE Undefined

(* The hour loop opening a period at the hour itself (start: hour). *)
ScanStepNoOffset(cur, periods, h, status) ==
    IF status = "no"
    THEN IF cur = Null
         THEN [currentPeriod |-> <<h, h>>, noLightPeriods |-> periods]
         ELSE [currentPeriod |-> <<cur[1], h>>, noLightPeriods |-> periods]
    ELSE IF cur # Null
         THEN [currentPeriod |-> Null, noLightPeriods |-> Append(periods, cur)]
         ELSE [currentPeriod |-> cur, noLightPeriods |-> periods]

(* The hour loop saving a period without clearing currentPeriod. *)
ScanStepNoClear(cur, periods, h, status) ==
    IF status = "no"
    THEN IF cur = Null
         THEN [currentPeriod |-> <<h - 1, h>>, noLightPeriods |-> periods]
         ELSE [currentPeriod |-> <<cur[1], h>>, noLightPeriods |-> periods]
    ELSE IF cur # Null
         THEN [currentPeriod |-> cur, noLightPeriods |-> Append(periods, cur)]
         ELSE [currentPeriod |-> cur, noLightPeriods |-> periods]

(* One iteration of the hour loop, on the pair (currentPeriod, noLightPeriods). *)
ScanStep(cur, periods, h, status) ==
    IF status = "no"
    THEN IF cur = Null
         THEN [currentPeriod |-> <<h - 1, h>>, noLightPeriods |-> periods]
         ELSE [currentPeriod |-> <<cur[1], h>>, noLightPeriods |-> periods]
    ELSE IF cur # Null
         THEN [currentPeriod |-> Null, noLightPeriods |-> Append(periods, cur)]
         ELSE [currentPeriod |-> cur, noLightPeriods |-> periods]

(* After the loop: a period that reached the last hour is saved. *)
ScanEnd(cur, periods) == IF cur # Null THEN Append(periods, cur) ELSE periods

LastHour == 24

RECURSIVE ScanFrom(_, _, _, _)
ScanFrom(slots, h, cur, periods) ==
    IF h > LastHour THEN ScanEnd(cur, periods)
    ELSE LET s == ScanStep(cur, periods, h, StatusAt(slots, h))
         IN ScanFrom(slots, h + 1, s.currentPeriod, s.noLightPeriods)

(* The periods parseLightSchedule builds for one feeder. *)
ScanHours(slots) == ScanFrom(slots, 1, Null, <<>>)

-----------------------------------------------------------------------------
(* Array.prototype.join. *)
RECURSIVE Join(_, _)
Join(arr, sep) ==
    IF arr = <<>> THEN ""
    ELSE IF Len(arr) = 1 THEN arr[1]
    ELSE arr[1] \o sep \o Join(Tail(arr), sep)

(* String.prototype.replace with a string pattern: the first occurrence only. *)
Replace(s, pat, rep) ==
    LET hits == {i \in 1..(Len(s) - Len(pat) + 1) : SubSeq(s, i, i + Len(pat) - 1) = pat}
    IN IF hits = {} THEN s
       ELSE LET i == CHOOSE j \in hits : \A k \in hits : j <= k
            IN SubSeq(s, 1, i - 1) \o rep \o SubSeq(s, i + Len(pat), Len(s))

Pad2(n) == IF n < 10 THEN "0" \o ToString(n) ELSE ToString(n)

(* new Date(parseInt(timestamp) * 1000).toLocaleDateString('ru-RU'):        *)
(* dd.mm.yyyy of the civil day holding the instant, the process time zone   *)
(* taken as UTC.                                                            *)
toLocaleDateString(timestamp) ==
    LET z == (timestamp \div 86400) + 719468
        era == z \div 146097
        doe == z - era * 146097
        yoe == (doe - doe \div 1460 + doe \div 36524 - doe \div 146096) \div 365
        doy == doe - (365 * yoe + yoe \div 4 - yoe \div 100)
        mp == (5 * doy + 2) \div 153
        d == doy - (153 * mp + 2) \div 5 + 1
        m == IF mp < 10 THEN mp + 3 ELSE mp - 9
        y == yoe + era * 400 + (IF m <= 2 THEN 1 ELSE 0)
    IN Pad2(d) \o "." \o Pad2(m) \o "." \o ToString(y)

(* noLightPeriods.map(period => `${period.start} - ${period.end}`) *)
PeriodTexts(periods) ==
    [i \in 1..Len(periods) |-> ToString(periods[i][1]) \o " - " \o ToString(periods[i][2])]

(* The description line of one feeder with at least one period. *)
Line(formattedDate, scheduleName, periods) ==
    "Data " \o formattedDate \o ", grafik " \o Replace(scheduleName, "GPV", "")
        \o ", sveta ne budet v takie promejutki: " \o Join(PeriodTexts(periods), ", ")

(* The lines pushed for the feeders of one date, without the length test. *)
RECURSIVE ParseDateAll(_, _, _)
ParseDateAll(formattedDate, schedules, names) ==
    IF names = <<>> THEN <<>>
    ELSE LET scheduleName == Head(names)
             periods == ScanHours(schedules[scheduleName])
         IN <<Line(formattedDate, scheduleName, periods)>>
                \o ParseDateAll(formattedDate, schedules, Tail(names))

(* The loop over the feeders of one date: the lines it pushes, in order. *)
RECURSIVE ParseDate(_, _, _)
ParseDate(formattedDate, schedules, names) ==
    IF names = <<>> THEN <<>>
    ELSE LET scheduleName == Head(names)
             periods == ScanHours(schedules[scheduleName])
             pushed == IF Len(periods) > 0
                       THEN <<Line(formattedDate, scheduleName, periods)>>
                       ELSE <<>>
         IN pushed \o ParseDate(formattedDate, schedules, Tail(names))

(* The loop over the dates: the lines it pushes, in order. *)
RECURSIVE ParseLoop(_, _)
ParseLoop(doc, stamps) ==
    IF stamps = <<>> THEN <<>>
    ELSE LET timestamp == Head(stamps)
         IN ParseDate(toLocaleDateString(timestamp), doc[timestamp],
                      KeyOrder(DOMAIN doc[timestamp]))
                \o ParseLoop(doc, Tail(stamps))

(* The results array of parseLightSchedule; it returns results.join('\n'). *)
ParseLines(doc) == ParseLoop(doc, Ascending(DOMAIN doc))

parseLightSchedule(doc) == Join(ParseLines(doc), "\n")

-----------------------------------------------------------------------------
(* fetchShutdowns.  A script of the page is a record of what the code asks  *)
(* of its text: marker is txt.includes('DisconSchedule.fact'), match is     *)
(* whether the assignment regex matches, json is the value JSON.parse gives *)
(* for the normalised literal and eval the value the Function fallback      *)
(* gives for the literal as written.  A result that may be absent is a      *)
(* tuple: <<>> for a throw or undefined, <<v>> for the value v.             *)

None == <<>>
Some(v) == <<v>>

(* The loop body with a failed JSON.parse moving on to the next script. *)
ScriptStepSkipOnJsonFail(script) ==
    IF script.marker /\ script.match
    THEN IF script.json # None
         THEN [kind |-> "return", value |-> script.json]
         ELSE [kind |-> "skip", value |-> None]
    ELSE [kind |-> "skip", value |-> None]

(* The loop body on one script: skip it, return a value, or throw. *)
ScriptStep(script) ==
    IF script.marker /\ script.match
    THEN IF script.json # None
         THEN [kind |-> "return", value |-> script.json]
         ELSE IF script.eval # None
              THEN [kind |-> "return", value |-> script.eval]
              ELSE [kind |-> "throw", value |-> None]
    ELSE [kind |-> "skip", value |-> None]

(* The for...of loop from script i on: the value returned, undefined when   *)
(* the loop runs out, or the throw of the fallback.                         *)
RECURSIVE ScriptLoop(_, _)
ScriptLoop(list, i) ==
    IF i > Len(list) THEN [kind |-> "return", value |-> None]
    ELSE LET step == ScriptStep(list[i])
         IN IF step.kind = "skip" THEN ScriptLoop(list, i + 1) ELSE step

(* fetchShutdowns on a response: a rejected fetch and a status outside      *)
(* 200..299 throw, otherwise the scripts of the body are searched.          *)
fetchShutdowns(response) ==
    IF ~response.arrived \/ ~response.ok THEN [kind |-> "throw", value |-> None]
    ELSE ScriptLoop(response.scripts, 1)

-----------------------------------------------------------------------------
(* The values the variables of an operation hold while it is not running. *)
ReportOff ==
    /\ rpc = "off" /\ obj = <<>> /\ keysToKeep = <<>>
    /\ filteredData = <<>> /\ results = <<>> /\ output = ""

ScanOff ==
    /\ spc = "off" /\ timeSlots = <<>> /\ hour = 0
    /\ currentPeriod = Null /\ noLightPeriods = <<>>

FetchOff ==
    /\ fpc = "off" /\ served = <<>> /\ scripts = <<>> /\ idx = 0 /\ fetched = <<>>

HandlerOff ==
    /\ page = "" /\ updates = 0 /\ pc = <<>> /\ resp = <<>>
    /\ text = <<>> /\ offset = <<>> /\ sent = <<>> /\ acked = <<>> /\ gets = <<>>

-----------------------------------------------------------------------------
(* The hour scan of one feeder, one loop iteration at a time.              *)

MaxSegs == 3

NonNo == {"yes", "maybe", Undefined}

(* The sets of n cut points among the hours 1..LastHour-1. *)
RECURSIVE CutSets(_)
CutSets(n) ==
    IF n = 0 THEN {{}}
    ELSE {S \cup {c} : S \in CutSets(n - 1), c \in 1..(LastHour - 1)}
            \ CutSets(n - 1)

(* The stretches, among n alternating ones, whose token is not "no". *)
NonNoSegs(n, firstNo) == {i \in 1..n : (i % 2 = 1) # firstNo}

(* The hours 1..LastHour cut into stretches after the hours in cuts; the    *)
(* stretches alternate between "no" and a token that is not "no", and an    *)
(* hour whose token is undefined has no key.                                *)
TokenAt(cuts, toks, h) ==
    LET seg == 1 + Cardinality({c \in cuts : c < h})
    IN IF seg \in DOMAIN toks THEN toks[seg] ELSE "no"

MakeSlots(cuts, toks) ==
    LET present == {h \in 1..LastHour : TokenAt(cuts, toks, h) # Undefined}
    IN [k \in {ToString(h) : h \in present} |->
          TokenAt(cuts, toks, CHOOSE h \in present : ToString(h) = k)]

InitScan ==
    /\ ReportOff
    /\ FetchOff
    /\ HandlerOff
    /\ \E n \in 1..MaxSegs, firstNo \in BOOLEAN :
         \E cuts \in CutSets(n - 1), toks \in [NonNoSegs(n, firstNo) -> NonNo] :
            timeSlots = MakeSlots(cuts, toks)
    /\ spc = "scan"
    /\ hour = 1
    /\ currentPeriod = Null
    /\ noLightPeriods = <<>>

(* for (let hour = 1; hour <= 24; hour++) { ... } *)
ScanHour ==
    /\ spc = "scan"
    /\ hour <= LastHour
    /\ LET s == ScanStep(currentPeriod, noLightPeriods, hour, StatusAt(timeSlots, hour))
       IN /\ currentPeriod' = s.currentPeriod
          /\ noLightPeriods' = s.noLightPeriods
    /\ hour' = hour + 1
    /\ UNCHANGED <<spc, timeSlots, reportVars, fetchVars, handlerVars>>

(* if (currentPeriod !== null) noLightPeriods.push(currentPeriod) *)
ScanFinish ==
    /\ spc = "scan"
    /\ hour > LastHour
    /\ noLightPeriods' = ScanEnd(currentPeriod, noLightPeriods)
    /\ spc' = "done"
    /\ UNCHANGED <<timeSlots, hour, currentPeriod, reportVars, fetchVars, handlerVars>>

NextScan == ScanHour \/ ScanFinish

SpecScan == InitScan /\ [][NextScan]_vars

-----------------------------------------------------------------------------
(* filterGPVKeys and parseLightSchedule on one document.                   *)

MaxDates == 2

(* Day keys, one day apart, from the timestamp of the sample document. *)
Stamps == {1700000000 + (i - 1) * 86400 : i \in 1..MaxDates}

FeederNames == {"GPV5.1", "GPV3.2", "gpv5.1"}

Outage == [k \in {"9", "10", "11"} |-> IF k = "11" THEN "yes" ELSE "no"]
(* No "no" among the hours 1..24: another token, another case, a key past 24. *)
Lit == [k \in {"1", "2", "25"} |-> IF k = "1" THEN "yes" ELSE IF k = "2" THEN "No" ELSE "no"]
SampleSlots == {Outage, Lit}

FeederMaps == UNION {[names -> SampleSlots] : names \in SUBSET FeederNames}
Documents == UNION {[dates -> FeederMaps] : dates \in SUBSET Stamps}

KeepLists == {<<"GPV5.1", "GPV3.2">>, <<"gpv5.1">>, <<>>}

InitReport ==
    /\ ScanOff
    /\ FetchOff
    /\ HandlerOff
    /\ obj \in Documents
    /\ keysToKeep \in KeepLists
    /\ rpc = "start"
    /\ filteredData = <<>>
    /\ results = <<>>
    /\ output = ""

Filter ==
    /\ rpc = "start"
    /\ filteredData' = filterGPVKeys(obj, keysToKeep)
    /\ rpc' = "filtered"
    /\ UNCHANGED <<obj, keysToKeep, results, output, scanVars, fetchVars, handlerVars>>

Parse ==
    /\ rpc = "filtered"
    /\ results' = ParseLines(filteredData)
    /\ output' = parseLightSchedule(filteredData)
    /\ rpc' = "parsed"
    /\ UNCHANGED <<obj, keysToKeep, filteredData, scanVars, fetchVars, handlerVars>>

NextReport == Filter \/ Parse

SpecReport == InitReport /\ [][NextReport]_vars

-----------------------------------------------------------------------------
(* Properties of filterGPVKeys and parseLightSchedule.                     *)

Range(seq) == {seq[i] : i \in 1..Len(seq)}

(* C1: filterGPVKeys keeps every date key of the document, and under each   *)
(* date exactly the feeders whose key is one of keysToKeep, each with its   *)
(* Hour-Status-Map unchanged; a date with no kept feeder maps to {}.        *)
C1_FilterExact ==
    rpc \in {"filtered", "parsed"} =>
        /\ DOMAIN filteredData = DOMAIN obj
        /\ \A d \in DOMAIN obj :
              /\ DOMAIN filteredData[d] = DOMAIN obj[d] \cap Range(keysToKeep)
              /\ \A g \in DOMAIN filteredData[d] : filteredData[d][g] = obj[d][g]

(* A filtered document with a date left empty and a date with a feeder kept *)
(* beside one dropped.                                                      *)
C1_Witness ==
    /\ rpc = "filtered"
    /\ \E d \in DOMAIN obj : obj[d] # <<>> /\ filteredData[d] = <<>>
    /\ \E d \in DOMAIN obj :
          /\ filteredData[d] # <<>>
          /\ DOMAIN filteredData[d] # DOMAIN obj[d]
          /\ "gpv5.1" \in DOMAIN obj[d]

IsNo(slots, h) == ToString(h) \in DOMAIN slots /\ slots[ToString(h)] = "no"

NoHours(slots) == {h \in 1..LastHour : IsNo(slots, h)}

(* The maximal runs a..b of consecutive "no" hours, each as (a-1, b). *)
MaximalRuns(slots) ==
    LET no == NoHours(slots)
    IN {<<r[1] - 1, r[2]>> : r \in
          {q \in no \X no :
              /\ q[1] <= q[2]
              /\ (q[1]..q[2]) \subseteq no
              /\ (q[1] - 1) \notin no
              /\ (q[2] + 1) \notin no}}

(* C2: the periods built for a feeder are exactly the maximal runs of       *)
(* consecutive "no" hours, a run a..b giving (a-1, b); all 24 hours "no"    *)
(* renders "0 - 24" and an outage at hour 9 alone renders "8 - 9".          *)
C2_MaximalRuns ==
    spc = "done" =>
        /\ Range(noLightPeriods) = MaximalRuns(timeSlots)
        /\ Len(noLightPeriods) = Cardinality(MaximalRuns(timeSlots))
        /\ NoHours(timeSlots) = 1..LastHour =>
              Join(PeriodTexts(noLightPeriods), ", ") = "0 - 24"
        /\ NoHours(timeSlots) = {9} =>
              Join(PeriodTexts(noLightPeriods), ", ") = "8 - 9"

(* A finished scan with two runs, the second reaching hour 24, separated by *)
(* hours whose key is missing.                                              *)
C2_Witness ==
    /\ spc = "done"
    /\ Len(noLightPeriods) = 2
    /\ noLightPeriods[2][2] = LastHour
    /\ \E h \in 1..LastHour : ToString(h) \notin DOMAIN timeSlots

(* C3: at every step of the scan and at its end, every saved period has     *)
(* 0 <= start < end <= 24, and each period ends strictly before the next    *)
(* one starts.                                                              *)
C3_PeriodsOrdered ==
    /\ \A i \in 1..Len(noLightPeriods) :
          /\ 0 <= noLightPeriods[i][1]
          /\ noLightPeriods[i][1] < noLightPeriods[i][2]
          /\ noLightPeriods[i][2] <= LastHour
    /\ \A i \in 1..(Len(noLightPeriods) - 1) :
          noLightPeriods[i][2] < noLightPeriods[i + 1][1]

(* Two saved periods one lit hour apart. *)
C3_Witness ==
    /\ spc \in {"scan", "done"}
    /\ Len(noLightPeriods) = 2
    /\ noLightPeriods[1][2] + 1 = noLightPeriods[2][1]

(* The (date, feeder) pairs of the parsed document with a "no" hour. *)
OutagePairs ==
    {p \in (DOMAIN filteredData) \X FeederNames :
        /\ p[2] \in DOMAIN filteredData[p[1]]
        /\ \E h \in 1..LastHour : IsNo(filteredData[p[1]][p[2]], h)}

StartsWith(s, prefix) == Len(s) >= Len(prefix) /\ SubSeq(s, 1, Len(prefix)) = prefix

PairPrefix(p) ==
    "Data " \o toLocaleDateString(p[1]) \o ", grafik " \o Replace(p[2], "GPV", "") \o ","

Newlines(s) == Cardinality({i \in 1..Len(s) : SubSeq(s, i, i) = "\n"})

(* C4: parseLightSchedule emits one line for each (date, feeder) pair with  *)
(* a "no" hour and no other line; without any such pair the text is empty.  *)
C4_OneLinePerOutage ==
    rpc = "parsed" =>
        /\ Len(results) = Cardinality(OutagePairs)
        /\ \A p \in OutagePairs :
              Cardinality({i \in 1..Len(results) : StartsWith(results[i], PairPrefix(p))}) = 1
        /\ OutagePairs = {} => output = ""
        /\ OutagePairs # {} =>
              /\ output # ""
              /\ Newlines(output) = Cardinality(OutagePairs) - 1

(* A parsed document with a line, a silent feeder and a date without feeders. *)
C4_Witness ==
    /\ rpc = "parsed"
    /\ Len(results) >= 1
    /\ \E d \in DOMAIN filteredData : filteredData[d] = <<>>
    /\ \E d \in DOMAIN filteredData :
          \E g \in DOMAIN filteredData[d] : <<d, g>> \notin OutagePairs

-----------------------------------------------------------------------------
(* One call of fetchShutdowns, one script at a time.                       *)

MaxScripts == 3

(* Structured values an assignment can hold. *)
SampleDoc == (1700000000 :> ("GPV5.1" :> Outage))
ValueOk == [status |-> "ok", data |-> SampleDoc]
ValueError == [status |-> "error"]
FetchValues == {ValueOk, ValueError}

ScriptKinds ==
    {[marker |-> FALSE, match |-> FALSE, json |-> None, eval |-> None],
     [marker |-> TRUE, match |-> FALSE, json |-> None, eval |-> None],
     [marker |-> TRUE, match |-> TRUE, json |-> None, eval |-> None]}
    \cup {[marker |-> TRUE, match |-> TRUE, json |-> Some(v), eval |-> Some(v)] : v \in FetchValues}
    \cup {[marker |-> TRUE, match |-> TRUE, json |-> None, eval |-> Some(v)] : v \in FetchValues}

ScriptLists == UNION {[1..n -> ScriptKinds] : n \in 0..MaxScripts}

NetworkFailure == [arrived |-> FALSE]
HttpFailure == [arrived |-> TRUE, ok |-> FALSE, status |-> 500]
Page(list) == [arrived |-> TRUE, ok |-> TRUE, status |-> 200, scripts |-> list]

InitFetch ==
    /\ ReportOff
    /\ ScanOff
    /\ HandlerOff
    /\ served \in {NetworkFailure, HttpFailure} \cup {Page(l) : l \in ScriptLists}
    /\ fpc = "get"
    /\ scripts = <<>>
    /\ idx = 0
    /\ fetched = None

(* await fetch(API_URL) rejects. *)
FetchRejected ==
    /\ fpc = "get"
    /\ ~served.arrived
    /\ fpc' = "thrown"
    /\ UNCHANGED <<served, scripts, idx, fetched, reportVars, scanVars, handlerVars>>

(* if (!resp.ok) throw new Error(`HTTP error: ${resp.status}`) *)
FetchHttpError ==
    /\ fpc = "get"
    /\ served.arrived /\ ~served.ok
    /\ fpc' = "thrown"
    /\ UNCHANGED <<served, scripts, idx, fetched, reportVars, scanVars, handlerVars>>

(* The body is read and its script elements listed in document order. *)
FetchBody ==
    /\ fpc = "get"
    /\ served.arrived /\ served.ok
    /\ scripts' = served.scripts
    /\ idx' = 1
    /\ fpc' = "loop"
    /\ UNCHANGED <<served, fetched, reportVars, scanVars, handlerVars>>

(* A script without the marker, or whose text the regex does not match. *)
SkipScript ==
    /\ fpc = "loop" /\ idx <= Len(scripts)
    /\ ScriptStep(scripts[idx]).kind = "skip"
    /\ idx' = idx + 1
    /\ UNCHANGED <<fpc, served, scripts, fetched, reportVars, scanVars, handlerVars>>

(* return data, from JSON.parse or from the fallback. *)
ReturnValue ==
    /\ fpc = "loop" /\ idx <= Len(scripts)
    /\ ScriptStep(scripts[idx]).kind = "return"
    /\ fetched' = ScriptStep(scripts[idx]).value
    /\ fpc' = "returned"
    /\ UNCHANGED <<served, scripts, idx, reportVars, scanVars, handlerVars>>

(* The fallback throws as well. *)
ThrowParse ==
    /\ fpc = "loop" /\ idx <= Len(scripts)
    /\ ScriptStep(scripts[idx]).kind = "throw"
    /\ fpc' = "thrown"
    /\ UNCHANGED <<served, scripts, idx, fetched, reportVars, scanVars, handlerVars>>

(* The loop ran out: the message is logged and undefined returned. *)
NotFound ==
    /\ fpc = "loop" /\ idx > Len(scripts)
    /\ fetched' = None
    /\ fpc' = "returned"
    /\ UNCHANGED <<served, scripts, idx, reportVars, scanVars, handlerVars>>

NextFetch ==
    \/ FetchRejected \/ FetchHttpError \/ FetchBody
    \/ SkipScript \/ ReturnValue \/ ThrowParse \/ NotFound

SpecFetch == InitFetch /\ [][NextFetch]_vars

(* The scripts holding a marker assignment the regex matches. *)
Assignments(list) == {i \in 1..Len(list) : list[i].marker /\ list[i].match}

FirstAssignment(list) ==
    CHOOSE i \in Assignments(list) : \A j \in Assignments(list) : i <= j

(* The value of an assignment: the JSON reading, else the evaluated one. *)
AssignedValue(script) == IF script.json # None THEN script.json ELSE script.eval

(* C9: the scripts are examined in order; scripts without a matching marker *)
(* assignment are passed over; the first matching assignment decides the    *)
(* result and no script after it is examined.                               *)
C9_FirstAssignmentWins ==
    fpc \in {"loop", "returned", "thrown"} =>
        /\ \A i \in 1..(idx - 1) : i \notin Assignments(scripts)
        /\ Assignments(scripts) # {} => idx <= FirstAssignment(scripts)
        /\ (fpc = "returned" /\ Assignments(scripts) # {}) =>
              /\ idx = FirstAssignment(scripts)
              /\ fetched = AssignedValue(scripts[idx])
              /\ fetched # None
        /\ (fpc = "returned" /\ Assignments(scripts) = {}) =>
              fetched = None /\ idx = Len(scripts) + 1
        /\ (fpc = "thrown" /\ served.arrived /\ served.ok) =>
              /\ Assignments(scripts) # {}
              /\ idx = FirstAssignment(scripts)
              /\ AssignedValue(scripts[idx]) = None

(* A value returned from the second script, after a script that only        *)
(* mentions the marker, with a later assignment of another value unread.    *)
C9_Witness ==
    /\ fpc = "returned"
    /\ idx = 2
    /\ Len(scripts) = 3
    /\ scripts[1].marker /\ ~scripts[1].match
    /\ 3 \in Assignments(scripts)
    /\ AssignedValue(scripts[3]) # None
    /\ AssignedValue(scripts[3]) # fetched

-----------------------------------------------------------------------------
(* The /start handler.  Each request runs the handler on its own locals;    *)
(* the steps of different requests interleave at every await.  ctx.reply    *)
(* puts a message on the chat (sent); its promise resolves later (acked)    *)
(* and the handler goes on in that same step.  The transport to the chat    *)
(* is taken to deliver every message.                                       *)

NumRequests == 2
Requests == 1..NumRequests

MAX_MSG_LEN == 4000

Greeting == "Privet, polzovatel! Zaprashivayu dannye..."
EmptyMsg == "Pustoj otvet ot API."
StatusMsg(status) == "API vernul status: " \o status
Apology == "Ups - ne udalos poluchit dannye. Poprobujte pozzhe."

HandlerKeys == <<"GPV5.1", "GPV3.2">>

(* JavaScript truthiness of a string. *)
Truthy(str) == str # ""

(* The two tests on data reading data.data without the optional chaining:   *)
(* an undefined data throws a TypeError.                                    *)
BranchNoOptionalChaining(d) ==
    IF d = None THEN "throw"
    ELSE IF "data" \notin DOMAIN d[1] THEN "empty"
    ELSE IF "status" \in DOMAIN d[1] /\ Truthy(d[1].status) /\ d[1].status # "ok"
         THEN "status"
         ELSE "report"

(* if (!data?.data) ... ; if (data.status && data.status !== 'ok') ... *)
Branch(d) ==
    IF d = None \/ "data" \notin DOMAIN d[1] THEN "empty"
    ELSE IF "status" \in DOMAIN d[1] /\ Truthy(d[1].status) /\ d[1].status # "ok"
         THEN "status"
         ELSE "report"

(* A handler whose try block starts after the call of fetchShutdowns. *)
InTryAfterFetch(site) == site \in {"branch", "send"}

(* The awaits and calls the try block of the handler encloses. *)
InTry(site) == site \in {"fetch", "branch", "send"}

(* text.slice(from, from + MAX_MSG_LEN) one character short. *)
SliceShort(str, from) == SubSeq(str, from + 1, from + MAX_MSG_LEN - 1)

(* text.slice(from, from + MAX_MSG_LEN) *)
Slice(str, from) ==
    SubSeq(str, from + 1, IF from + MAX_MSG_LEN < Len(str) THEN from + MAX_MSG_LEN ELSE Len(str))

(* Sample values of the assignment and sample pages of the server. *)
RECURSIVE Repeat(_, _)
Repeat(str, n) ==
    IF n = 0 THEN ""
    ELSE IF n % 2 = 0 THEN LET h == Repeat(str, n \div 2) IN h \o h
    ELSE str \o Repeat(str, n - 1)

(* Every second hour without power: twelve periods on a line. *)
Flicker == [k \in {ToString(2 * n - 1) : n \in 1..12} |-> "no"]
LongDoc == [d \in {1700000000 + k * 86400 : k \in 0..12} |->
              ("GPV5.1" :> Flicker @@ "GPV3.2" :> Flicker @@ "gpv5.1" :> Lit)]
ValueNoStatus == [data |-> (1700000000 :> ("GPV5.1" :> Lit @@ "GPV1.1" :> Outage))]
ValueErrorWithData == [status |-> "error", data |-> SampleDoc]
ValueEmptyStatus == [status |-> "", data |-> SampleDoc]
ValueLong == [status |-> "ok", data |-> LongDoc]

Assign(v) == [marker |-> TRUE, match |-> TRUE, json |-> Some(v), eval |-> Some(v)]
Plain == [marker |-> FALSE, match |-> FALSE, json |-> None, eval |-> None]
Broken == [marker |-> TRUE, match |-> TRUE, json |-> None, eval |-> None]

(* The sample pages, by name: a variable holds the name of a response and   *)
(* Content gives the response.                                              *)
PageNames ==
    {"http500", "nomarker", "broken", "ok", "error", "errordata", "emptystatus",
     "nostatus", "long"}

Content(name) ==
    CASE name = "failed" -> NetworkFailure
      [] name = "http500" -> HttpFailure
      [] name = "nomarker" -> Page(<<Plain>>)
      [] name = "broken" -> Page(<<Plain, Broken>>)
      [] name = "ok" -> Page(<<Plain, Assign(ValueOk)>>)
      [] name = "error" -> Page(<<Plain, Assign(ValueError)>>)
      [] name = "errordata" -> Page(<<Plain, Assign(ValueErrorWithData)>>)
      [] name = "emptystatus" -> Page(<<Plain, Assign(ValueEmptyStatus)>>)
      [] name = "nostatus" -> Page(<<Plain, Assign(ValueNoStatus)>>)
      [] name = "long" -> Page(<<Plain, Assign(ValueLong)>>)

MaxUpdates == 1

(* A GET answered from the response another request holds, when there is one. *)
ServedCached ==
    LET holders == {q \in Requests : resp[q] \notin {"none", "failed"}}
    IN IF holders # {} THEN resp[CHOOSE q \in holders : TRUE] ELSE page

(* What a GET that is answered now receives: the server's current page. *)
Served == page

(* What the handler does with a response: the throw of fetchShutdowns, or   *)
(* the branch taken on the value it returned.                               *)
Outcome(name) ==
    LET f == fetchShutdowns(Content(name))
    IN IF f.kind = "throw" THEN "throw" ELSE Branch(f.value)

ThrowSite(name) ==
    IF fetchShutdowns(Content(name)).kind = "throw" THEN "fetch" ELSE "branch"

(* The local data of a request that has its response: what fetchShutdowns   *)
(* returned for it.                                                         *)
Data(name) == fetchShutdowns(Content(name)).value

Init ==
    /\ ReportOff
    /\ ScanOff
    /\ FetchOff
    /\ page \in PageNames
    /\ updates = 0
    /\ pc = [r \in Requests |-> "idle"]
    /\ resp = [r \in Requests |-> "none"]
    /\ text = [r \in Requests |-> ""]
    /\ offset = [r \in Requests |-> 0]
    /\ sent = [r \in Requests |-> <<>>]
    /\ acked = [r \in Requests |-> 0]
    /\ gets = [r \in Requests |-> 0]

(* The provider publishes another page. *)
ServerUpdate ==
    /\ updates < MaxUpdates
    /\ page' \in PageNames \ {page}
    /\ updates' = updates + 1
    /\ UNCHANGED <<pc, resp, text, offset, sent, acked, gets>>
    /\ UNCHANGED <<reportVars, scanVars, fetchVars>>

(* bot.start: the greeting is sent and awaited. *)
Start(r) ==
    /\ pc[r] = "idle"
    /\ sent' = [sent EXCEPT ![r] = Append(@, Greeting)]
    /\ pc' = [pc EXCEPT ![r] = "greet"]
    /\ UNCHANGED <<page, updates, resp, text, offset, acked, gets>>
    /\ UNCHANGED <<reportVars, scanVars, fetchVars>>

(* The greeting's promise resolves: the try block is entered and            *)
(* fetchShutdowns issues its GET.                                           *)
IssueGet(r) ==
    /\ pc[r] = "greet"
    /\ acked' = [acked EXCEPT ![r] = @ + 1]
    /\ gets' = [gets EXCEPT ![r] = @ + 1]
    /\ pc' = [pc EXCEPT ![r] = "fetch"]
    /\ UNCHANGED <<page, updates, resp, text, offset, sent>>
    /\ UNCHANGED <<reportVars, scanVars, fetchVars>>

(* fetchShutdowns throws (the fetch rejects, the status is not a success,   *)
(* the literal cannot be read): the catch block sends the apology.          *)
Throws(r) ==
    /\ pc[r] = "fetch"
    /\ \E response \in {"failed", Served} :
          /\ Outcome(response) = "throw"
          /\ resp' = [resp EXCEPT ![r] = response]
          /\ IF InTry(ThrowSite(response))
             THEN /\ sent' = [sent EXCEPT ![r] = Append(@, Apology)]
                  /\ pc' = [pc EXCEPT ![r] = "final"]
             ELSE /\ pc' = [pc EXCEPT ![r] = "escaped"]
                  /\ UNCHANGED sent
    /\ UNCHANGED <<page, updates, text, offset, acked, gets>>
    /\ UNCHANGED <<reportVars, scanVars, fetchVars>>

(* if (!data?.data) { await ctx.reply('Pustoj otvet ot API.'); return; } *)
ReplyEmpty(r) ==
    /\ pc[r] = "fetch"
    /\ Outcome(Served) = "empty"
    /\ resp' = [resp EXCEPT ![r] = Served]
    /\ sent' = [sent EXCEPT ![r] = Append(@, EmptyMsg)]
    /\ pc' = [pc EXCEPT ![r] = "final"]
    /\ UNCHANGED <<page, updates, text, offset, acked, gets>>
    /\ UNCHANGED <<reportVars, scanVars, fetchVars>>

(* if (data.status && data.status !== 'ok') { await ctx.reply(...); return; } *)
ReplyStatus(r) ==
    /\ pc[r] = "fetch"
    /\ Outcome(Served) = "status"
    /\ resp' = [resp EXCEPT ![r] = Served]
    /\ sent' = [sent EXCEPT ![r] = Append(@, StatusMsg(Data(Served)[1].status))]
    /\ pc' = [pc EXCEPT ![r] = "final"]
    /\ UNCHANGED <<page, updates, text, offset, acked, gets>>
    /\ UNCHANGED <<reportVars, scanVars, fetchVars>>

(* text = parseLightSchedule(filterGPVKeys(data.data, ['GPV5.1', 'GPV3.2'])) *)
BuildReport(r) ==
    /\ pc[r] = "fetch"
    /\ Outcome(Served) = "report"
    /\ resp' = [resp EXCEPT ![r] = Served]
    /\ text' = [text EXCEPT ![r] =
                  parseLightSchedule(filterGPVKeys(Data(Served)[1].data, HandlerKeys))]
    /\ pc' = [pc EXCEPT ![r] = "send"]
    /\ UNCHANGED <<page, updates, offset, sent, acked, gets>>
    /\ UNCHANGED <<reportVars, scanVars, fetchVars>>

(* if (text.length <= MAX_MSG_LEN) await ctx.reply(text) *)
SendWhole(r) ==
    /\ pc[r] = "send"
    /\ Len(text[r]) <= MAX_MSG_LEN
    /\ sent' = [sent EXCEPT ![r] = Append(@, text[r])]
    /\ pc' = [pc EXCEPT ![r] = "final"]
    /\ UNCHANGED <<page, updates, resp, text, offset, acked, gets>>
    /\ UNCHANGED <<reportVars, scanVars, fetchVars>>

(* The loop is entered: i = 0 and the first slice is sent. *)
SendFirstChunk(r) ==
    /\ pc[r] = "send"
    /\ Len(text[r]) > MAX_MSG_LEN
    /\ offset' = [offset EXCEPT ![r] = 0]
    /\ sent' = [sent EXCEPT ![r] = Append(@, Slice(text[r], 0))]
    /\ pc' = [pc EXCEPT ![r] = "chunks"]
    /\ UNCHANGED <<page, updates, resp, text, acked, gets>>
    /\ UNCHANGED <<reportVars, scanVars, fetchVars>>

(* The slice's promise resolves; i += MAX_MSG_LEN; i < text.length: the    *)
(* next slice is sent.                                                      *)
NextChunk(r) ==
    /\ pc[r] = "chunks"
    /\ acked' = [acked EXCEPT ![r] = @ + 1]
    /\ offset[r] + MAX_MSG_LEN < Len(text[r])
    /\ offset' = [offset EXCEPT ![r] = @ + MAX_MSG_LEN]
    /\ sent' = [sent EXCEPT ![r] = Append(@, Slice(text[r], offset[r] + MAX_MSG_LEN))]
    /\ UNCHANGED <<page, updates, pc, resp, text, gets>>
    /\ UNCHANGED <<reportVars, scanVars, fetchVars>>

(* The slice's promise resolves; i += MAX_MSG_LEN; i >= text.length: the   *)
(* loop and the handler end.                                                *)
LoopExit(r) ==
    /\ pc[r] = "chunks"
    /\ acked' = [acked EXCEPT ![r] = @ + 1]
    /\ offset[r] + MAX_MSG_LEN >= Len(text[r])
    /\ offset' = [offset EXCEPT ![r] = @ + MAX_MSG_LEN]
    /\ pc' = [pc EXCEPT ![r] = "done"]
    /\ UNCHANGED <<page, updates, resp, text, sent, gets>>
    /\ UNCHANGED <<reportVars, scanVars, fetchVars>>

(* The promise of the last reply of a branch resolves: the handler returns. *)
Finish(r) ==
    /\ pc[r] = "final"
    /\ acked' = [acked EXCEPT ![r] = @ + 1]
    /\ pc' = [pc EXCEPT ![r] = "done"]
    /\ UNCHANGED <<page, updates, resp, text, offset, sent, gets>>
    /\ UNCHANGED <<reportVars, scanVars, fetchVars>>

Next ==
    \/ ServerUpdate
    \/ \E r \in Requests :
          \/ Start(r) \/ IssueGet(r)
          \/ Throws(r) \/ ReplyEmpty(r) \/ ReplyStatus(r) \/ BuildReport(r)
          \/ SendWhole(r) \/ SendFirstChunk(r) \/ NextChunk(r) \/ LoopExit(r)
          \/ Finish(r)

Spec == Init /\ [][Next]_vars

-----------------------------------------------------------------------------
(* The sending of a report, from the point where text is computed.  The     *)
(* text is any of the sample texts; the sending reads neither the response  *)
(* nor the page, which keep their initial values.                           *)

MaxChunks == 2

TextLens == {n \in {k * MAX_MSG_LEN + d : k \in 0..MaxChunks, d \in {-1, 0, 1}} : n >= 0}
SampleTexts == {SubSeq(Repeat("abcdefg", n \div 7 + 1), 1, n) : n \in TextLens}

InitSend ==
    /\ ReportOff
    /\ ScanOff
    /\ FetchOff
    /\ page = "nomarker"
    /\ updates = 0
    /\ pc = [r \in Requests |-> "send"]
    /\ resp = [r \in Requests |-> "none"]
    /\ text \in [Requests -> SampleTexts]
    /\ offset = [r \in Requests |-> 0]
    /\ sent = [r \in Requests |-> <<Greeting>>]
    /\ acked = [r \in Requests |-> 1]
    /\ gets = [r \in Requests |-> 1]

NextSend ==
    \E r \in Requests :
        \/ SendWhole(r) \/ SendFirstChunk(r)
        \/ NextChunk(r) \/ LoopExit(r) \/ Finish(r)

SpecSend == InitSend /\ [][NextSend]_vars

-----------------------------------------------------------------------------
(* Properties of the handler.                                               *)

(* A response on which the core fails: the fetch was rejected, the status   *)
(* is not a success, or the first matched assignment can be read neither    *)
(* as JSON nor by evaluation.                                               *)
CoreFails(name) ==
    LET c == Content(name)
    IN \/ ~c.arrived
       \/ ~c.ok
       \/ /\ Assignments(c.scripts) # {}
          /\ AssignedValue(c.scripts[FirstAssignment(c.scripts)]) = None

(* C5: every failure of the core is caught in the handler: the requester    *)
(* gets the apology and no exception leaves the handler.                    *)
C5_CoreFailureCaught ==
    \A r \in Requests :
        /\ pc[r] # "escaped"
        /\ (resp[r] # "none" /\ CoreFails(resp[r])) =>
              /\ pc[r] \in {"final", "done"}
              /\ sent[r] = <<Greeting, Apology>>

(* Two finished requests, one whose fetch was rejected or answered with a   *)
(* failure status and one whose page could not be read.                     *)
C5_Witness ==
    /\ \A r \in Requests : pc[r] = "done"
    /\ \E r \in Requests : resp[r] \in {"failed", "http500"}
    /\ \E r \in Requests : resp[r] = "broken"

(* C6: a value whose status is present and not 'ok' has that status         *)
(* reported, and no report or other message sent, whatever else it holds.   *)
C6_StatusAlwaysReported ==
    \A r \in Requests :
        (/\ pc[r] \in {"final", "done"}
         /\ resp[r] # "none"
         /\ Data(resp[r]) # None
         /\ "status" \in DOMAIN Data(resp[r])[1]
         /\ Data(resp[r])[1].status # "ok")
        => sent[r] = <<Greeting, StatusMsg(Data(resp[r])[1].status)>>

(* A page without any matching assignment, or whose value has no data. *)
NoPayload(name) ==
    LET c == Content(name)
    IN /\ c.arrived /\ c.ok
       /\ \/ Assignments(c.scripts) = {}
          \/ LET v == AssignedValue(c.scripts[FirstAssignment(c.scripts)])
             IN v # None /\ "data" \notin DOMAIN v[1]

(* C7: when no script yields the assignment fetchShutdowns returns          *)
(* undefined without throwing and the handler sends the empty-response      *)
(* message and returns; so it does for a value without the data field.      *)
C7_NotFoundIsEmptyResponse ==
    \A r \in Requests :
        (resp[r] # "none" /\ NoPayload(resp[r])) =>
            /\ pc[r] \in {"final", "done"}
            /\ sent[r] = <<Greeting, EmptyMsg>>
            /\ Assignments(Content(resp[r]).scripts) = {} =>
                  fetchShutdowns(Content(resp[r])) = [kind |-> "return", value |-> None]

(* Two finished requests, one served a page without the marker and one a    *)
(* value without data.                                                      *)
C7_Witness ==
    /\ \A r \in Requests : pc[r] = "done"
    /\ \E r \in Requests : resp[r] = "nomarker"
    /\ \E r \in Requests : resp[r] = "error"

(* The messages of a request after the greeting. *)
Chunks(r) == Tail(sent[r])

(* C8: the report goes out as messages of at most 4000 characters, in       *)
(* order, whose concatenation is the text; a text of at most 4000           *)
(* characters is one message; a message is sent only once the one before    *)
(* it has been acknowledged.                                                *)
C8_ChunksTileText ==
    \A r \in Requests :
        /\ pc[r] = "send" => sent[r] = <<Greeting>>
        /\ pc[r] \in {"chunks", "final", "done"} =>
              /\ \A c \in 1..Len(Chunks(r)) : Len(Chunks(r)[c]) <= MAX_MSG_LEN
              /\ Join(Chunks(r), "") = SubSeq(text[r], 1, Len(Join(Chunks(r), "")))
              /\ Len(sent[r]) - acked[r] <= 1
        /\ pc[r] \in {"final", "done"} =>
              /\ Join(Chunks(r), "") = text[r]
              /\ Len(text[r]) <= MAX_MSG_LEN => Chunks(r) = <<text[r]>>
        /\ pc[r] = "done" => acked[r] = Len(sent[r])

(* A text sent in three messages, the last of one character. *)
C8_Witness ==
    \E r \in Requests :
        /\ pc[r] = "done"
        /\ Len(Chunks(r)) = 3
        /\ Len(Chunks(r)[3]) = 1

Locals(r) == <<pc[r], resp[r], text[r], offset[r], sent[r], acked[r], gets[r]>>

(* C10: a request issues one GET, when it enters fetchShutdowns, and none   *)
(* after it; what it receives is the failure of its own fetch or the page   *)
(* the server holds at that moment; a failed fetch leads straight to the    *)
(* apology; and a step of one request changes nothing of another.           *)
C10_OwnSingleGet ==
    [][\A r \in Requests :
          /\ gets'[r] = IF pc'[r] \in {"idle", "greet"} THEN 0 ELSE 1
          /\ resp'[r] # resp[r] =>
                /\ pc[r] = "fetch"
                /\ resp[r] = "none"
                /\ resp'[r] \in {"failed", page}
          /\ (pc[r] = "fetch" /\ pc'[r] # "fetch" /\ CoreFails(resp'[r])) =>
                /\ pc'[r] = "final"
                /\ sent'[r] = <<Greeting, Apology>>
          /\ \A q \in Requests \ {r} :
                ~(Locals(r)' # Locals(r) /\ Locals(q)' # Locals(q))
      ]_vars

(* Two finished requests that were served different pages. *)
C10_Witness ==
    /\ \A r \in Requests : pc[r] = "done" /\ gets[r] = 1
    /\ \E r, q \in Requests :
          /\ resp[r] # resp[q]
          /\ resp[r] \notin {"none", "failed"}
          /\ resp[q] \notin {"none", "failed"}

=============================================================================
